---- MODULE Spec2Model ----
(***************************************************************************)
(* A model of MNER/models/modeling_unimo.py: the dual-stream encoder       *)
(* (UnimoModel / UnimoEncoder), the shared attention key (ShareKey), the   *)
(* attention-regularization bookkeeping (AttentionReg) and the helper      *)
(* functions get_extended_attention_mask, get_head_mask and                *)
(* _get_resized_embeddings.                                                *)
(*                                                                         *)
(* Tensors are records [shape, data] with data in row-major order, which   *)
(* is how a contiguous torch tensor and its views are laid out.            *)
(***************************************************************************)
EXTENDS Integers, Sequences, FiniteSets, TLC

VARIABLES
    \* ---- get_extended_attention_mask (one call) ----
    mask_pc,                  \* "call" before the call, "done" after it
    attention_mask,           \* the argument
    extended_attention_mask,  \* the returned tensor, None if nothing was returned
    mask_exc,                 \* the exception raised, None if none
    \* ---- AttentionReg.cal_loss (one call) ----
    loss_pc,                  \* "loop": at the head of the for loop, "body": in its body, "done"
    merge_type,               \* the argument merge_type
    loss_len,                 \* len(old_attention_list) = len(attention_list)
    loss_idx,                 \* idx: the number of pairs the loop has taken
    pair,                     \* (a, b): the pair the loop body is working on
    totloss,                  \* totloss
    loss_ret,                 \* the returned loss
    drift,                    \* history: some pair taken so far had a # b
    exceed,                   \* history: in some pair taken so far the merged a exceeded
                              \* the merged b somewhere
    \* ---- UnimoModel: the input embeddings ----
    word_embeddings,          \* self.text_embeddings.word_embeddings: a module or NoTensor
    next_id,                  \* the identity the next module object created gets
    emb_calls,                \* the number of calls made so far
    emb_last,                 \* the last call: its arguments and what it did
    \* ---- UnimoModel.forward, ShareKey, AttentionReg ----
    num_hidden_layers,        \* vision_config.num_hidden_layers = text_config.num_hidden_layers
    ShareKey,                 \* the class attributes key, vision_bias, text_bias (one per layer)
    attention_vision_list,    \* AttentionReg.attention_vision_list
    attention_text_list,      \* AttentionReg.attention_text_list
    embedding,                \* BertEmbeddings.embedding
    fwd_pc,                   \* "idle", or the step UnimoModel.forward is at:
                              \* "vision" / "text" (the layer of index idx is next), "post"
    idx,                      \* the loop index of UnimoEncoder.forward
    args,                     \* the arguments of the forward call in progress (or the last one)
    head_mask,                \* the local head_mask of UnimoModel.forward after get_head_mask
    enc_mask,                 \* the attention_mask parameter of UnimoEncoder.forward
    vision_hidden_states,     \* vision_hidden_states
    text_hidden_states,       \* text_hidden_states
    fwd_result,               \* None, "returned" or the exception of the last forward call
    trace,                    \* history: the layers the call has run, in order, with what
                              \* each read and computed
    base,                     \* history: the lengths of the two lists when the call began
    passes,                   \* history: forward calls begun
    since_clear               \* history: forward calls completed since the last
                              \* clear_attention_list

maskVars == <<mask_pc, attention_mask, extended_attention_mask, mask_exc>>
lossVars == <<loss_pc, merge_type, loss_len, loss_idx, pair, totloss, loss_ret, drift, exceed>>

embVars == <<word_embeddings, next_id, emb_calls, emb_last>>

fwdVars == <<num_hidden_layers, ShareKey, attention_vision_list, attention_text_list,
             embedding, fwd_pc, idx, args, head_mask, enc_mask, vision_hidden_states,
             text_hidden_states, fwd_result, trace, base, passes, since_clear>>

vars == <<maskVars, lossVars, embVars, fwdVars>>

\* Python's None: NoTensor where a tensor or module is expected, None where a
\* name (an exception type, a position) is expected.
None == "None"
NoTensor == [none |-> TRUE]

-----------------------------------------------------------------------------
(* Tensors *)

RECURSIVE Prod(_)
Prod(s) == IF s = <<>> THEN 1 ELSE Head(s) * Prod(Tail(s))

\* Row-major offset (0-based) of the 0-based index tuple ix in a tensor of shape s.
RECURSIVE Flat(_, _)
Flat(s, ix) ==
    IF s = <<>> THEN 0
    ELSE ix[1] * Prod(Tail(s)) + Flat(Tail(s), Tail(ix))

At(t, ix) == t.data[Flat(t.shape, ix) + 1]

Dim(t) == Len(t.shape)

-----------------------------------------------------------------------------
(* get_extended_attention_mask *)

\* Mask entries are floats; they are held as fixed-point numbers with one
\* binary fractional digit, so that 0.5 is an entry and the cast to long is
\* a real truncation.
Float(n) == 2 * n

\* Tensor.to(dtype=torch.long): truncation toward zero (entries are >= 0 here).
ToLong(x) == x \div 2

\* (1.0 - m) * -10000.0 for a long m; the result is a whole number.
MaskFill_swapped(m) == m * (-10000)
MaskFill(m) == (1 - m) * (-10000)

\* attention_mask[:, None, :, :] and attention_mask[:, None, None, :]: views
\* that insert axes of size 1 and leave the data in place.
Unsqueeze3(s) == <<s[1], 1, s[2], s[3]>>
Unsqueeze2(s) == <<s[1], 1, 1, s[2]>>

MaskRankOk_ge2(m) == Dim(m) >= 2
MaskRankOk(m) == Dim(m) = 3 \/ Dim(m) = 2

get_extended_attention_mask(m) ==
    IF ~MaskRankOk(m)
    THEN [exc |-> "ValueError", value |-> NoTensor]
    ELSE LET ext == IF Dim(m) = 3 THEN Unsqueeze3(m.shape) ELSE Unsqueeze2(m.shape)
         IN  [exc |-> None,
              value |-> [shape |-> ext,
                         data  |-> [i \in 1..Len(m.data) |-> MaskFill(ToLong(m.data[i]))]]]

-----------------------------------------------------------------------------
(* Inputs of get_extended_attention_mask *)

MaxSize == 2      \* every axis has 1..MaxSize entries
MaxMasked == 1    \* at most this many entries of a mask differ from 1.0

Ranks == {0, 1, 2, 3, 4}

Shapes == UNION {[1..r -> 1..MaxSize] : r \in Ranks}

\* A mask of n entries that is 1.0 except at the places ps (0: no place),
\* which hold the values vs, each 0.0 or 0.5.
MaskData(n, ps, vs) ==
    [i \in 1..n |->
        IF \E k \in 1..MaxMasked : ps[k] = i
        THEN vs[CHOOSE k \in 1..MaxMasked : ps[k] = i /\ \A j \in 1..(k - 1) : ps[j] # i]
        ELSE Float(1)]

MaskInit ==
    /\ mask_pc = "call"
    /\ \E s \in Shapes :
       \E ps \in [1..MaxMasked -> 0..Prod(s)], vs \in [1..MaxMasked -> {Float(0), 1}] :
           attention_mask = [shape |-> s, data |-> MaskData(Prod(s), ps, vs)]
    /\ extended_attention_mask = NoTensor
    /\ mask_exc = None

MaskIdle ==
    /\ mask_pc = "idle"
    /\ attention_mask = NoTensor
    /\ extended_attention_mask = NoTensor
    /\ mask_exc = None

CallGetExtendedAttentionMask ==
    /\ mask_pc = "call"
    /\ LET r == get_extended_attention_mask(attention_mask)
       IN  /\ extended_attention_mask' = r.value
           /\ mask_exc' = r.exc
    /\ mask_pc' = "done"
    /\ UNCHANGED attention_mask
    /\ UNCHANGED <<lossVars, embVars, fwdVars>>

-----------------------------------------------------------------------------
(* AttentionReg.cal_loss *)

\* Losses and normalized entries are floats; they are held as fixed-point
\* numbers with three decimal digits.
Fix(x) == x * 1000

\* The integer square root, by bisection on lo..hi.
RECURSIVE Bisect(_, _, _)
Bisect(x, lo, hi) ==
    IF lo >= hi THEN lo
    ELSE LET mid == (lo + hi + 1) \div 2
         IN  IF mid * mid <= x THEN Bisect(x, mid, hi) ELSE Bisect(x, lo, mid - 1)

ISqrt(x) == IF x = 0 THEN 0 ELSE Bisect(x, 1, 40000)

RECURSIVE SumSeq(_)
SumSeq(q) == IF q = <<>> THEN 0 ELSE Head(q) + SumSeq(Tail(q))

\* The entry [n, i, j] (1-based) of a contiguous [bs, max_len, max_len] tensor.
At3(t, n, i, j) == t.data[((n - 1) * t.shape[2] + (i - 1)) * t.shape[3] + j]

\* a.sum(dim=1).view(a.shape[0], -1) of a [bs, max_len, max_len] tensor: for
\* each batch element the sums over the second axis.
SumDim1(t) ==
    [n \in 1..t.shape[1] |->
        [j \in 1..t.shape[3] |-> SumSeq([i \in 1..t.shape[2] |-> At3(t, n, i, j)])]]

\* a.sum(dim=2).view(a.shape[0], -1): the sums over the third axis.
SumDim2(t) ==
    [n \in 1..t.shape[1] |->
        [i \in 1..t.shape[2] |-> SumSeq([j \in 1..t.shape[3] |-> At3(t, n, i, j)])]]

Merge(t, mt) == IF mt = "height" THEN SumDim1(t) ELSE SumDim2(t)

\* diff = a - b
Diff_plus(x, y) == [n \in DOMAIN x |-> [j \in DOMAIN x[n] |-> x[n][j] + y[n][j]]]
Diff(x, y) == [n \in DOMAIN x |-> [j \in DOMAIN x[n] |-> x[n][j] - y[n][j]]]

\* torch.nn.ReLU
ReLU_abs(v) == IF v > 0 THEN v ELSE -v
ReLU(v) == IF v > 0 THEN v ELSE 0

\* F.normalize(x, dim=1, p=2): every row divided by max(its 2-norm, eps). A row
\* of norm 0 is all zero and stays so (0 / eps); the result is fixed-point.
Norm2(row) == ISqrt(SumSeq([j \in DOMAIN row |-> row[j] * row[j]]) * Fix(1) * Fix(1))

Normalize(x) ==
    [n \in DOMAIN x |->
        LET norm == Norm2(x[n])
        IN  [j \in DOMAIN x[n] |-> IF norm = 0 THEN 0 ELSE (Fix(Fix(x[n][j]))) \div norm]]

\* torch.frobenius_norm of a fixed-point matrix
Frobenius(x) ==
    ISqrt(SumSeq([n \in DOMAIN x |-> SumSeq([j \in DOMAIN x[n] |-> x[n][j] * x[n][j]])]))

\* The body of the loop, lines 455-467: the loss of one pair (a, b).
layer_loss(a, b, mt) ==
    LET diff     == Diff(Merge(a, mt), Merge(b, mt))
        relu_out == [n \in DOMAIN diff |-> [j \in DOMAIN diff[n] |-> ReLU(diff[n][j])]]
    IN  (Frobenius(Normalize(relu_out)) \div 100) * 1

\* History: the merged old attention exceeds the merged new one somewhere.
Exceeds(a, b, mt) ==
    LET ma == Merge(a, mt)
        mb == Merge(b, mt)
    IN  \E n \in 1..a.shape[1], j \in 1..a.shape[2] : ma[n][j] > mb[n][j]

MaxBatch == 2     \* bs of an attention tensor is 1..MaxBatch
MaxLen == 2       \* max_len of an attention tensor is 1..MaxLen
MaxList == 2      \* the two lists hold 1..MaxList tensors

AttnVals == {-1, 1}

\* The attention tensors of shape [bs, len, len]: all zero, or zero except
\* for one entry.
AttnTensors(bs, len) ==
    {[shape |-> <<bs, len, len>>, data |-> [i \in 1..(bs * len * len) |-> 0]]}
    \cup {[shape |-> <<bs, len, len>>,
           data  |-> [i \in 1..(bs * len * len) |-> IF i = p THEN v ELSE 0]] :
              p \in 1..(bs * len * len), v \in AttnVals}

LossInit ==
    /\ loss_pc = "loop"
    /\ merge_type \in {"height", "width"}
    /\ loss_len \in 1..MaxList
    /\ loss_idx = 0
    /\ pair = NoTensor
    /\ totloss = 0
    /\ loss_ret = 0
    /\ drift = FALSE
    /\ exceed = FALSE

LossIdle ==
    /\ loss_pc = "idle"
    /\ merge_type = None
    /\ loss_len = 0
    /\ loss_idx = 0
    /\ pair = NoTensor
    /\ totloss = 0
    /\ loss_ret = 0
    /\ drift = FALSE
    /\ exceed = FALSE

\* for idx, (a, b) in enumerate(zip(old_attention_list, attention_list)):
\* the next pair of the two lists; assert a.shape == b.shape.
CalLossNext ==
    /\ loss_pc = "loop"
    /\ loss_idx < loss_len
    /\ \E bs \in 1..MaxBatch, len \in 1..MaxLen :
       \E a \in AttnTensors(bs, len), b \in AttnTensors(bs, len) :
           pair' = [a |-> a, b |-> b]
    /\ loss_pc' = "body"
    /\ UNCHANGED <<merge_type, loss_len, loss_idx, totloss, loss_ret, drift, exceed>>
    /\ UNCHANGED <<maskVars, embVars, fwdVars>>

\* lines 455-468
CalLossBody ==
    /\ loss_pc = "body"
    /\ totloss' = totloss + layer_loss(pair.a, pair.b, merge_type)
    /\ drift' = (drift \/ pair.a # pair.b)
    /\ exceed' = (exceed \/ Exceeds(pair.a, pair.b, merge_type))
    /\ loss_idx' = loss_idx + 1
    /\ pair' = NoTensor
    /\ loss_pc' = "loop"
    /\ UNCHANGED <<merge_type, loss_len, loss_ret>>
    /\ UNCHANGED <<maskVars, embVars, fwdVars>>

\* return totloss / len(layers_to_pool)
CalLossReturn ==
    /\ loss_pc = "loop"
    /\ loss_idx = loss_len
    /\ loss_ret' = totloss \div loss_len
    /\ loss_pc' = "done"
    /\ UNCHANGED <<merge_type, loss_len, loss_idx, pair, totloss, drift, exceed>>
    /\ UNCHANGED <<maskVars, embVars, fwdVars>>

-----------------------------------------------------------------------------
(* UnimoModel.resize_token_embeddings and _get_resized_embeddings *)

\* A module object is [id, kind, weight]: its identity, its class and the rows
\* of its weight matrix (embedding_dim is 1, so a row is a number).

MaxTokens == 2    \* a weight matrix has 1..MaxTokens rows
MaxCalls == 3     \* calls made on the model

RowVals == {0, 1}

Weights == UNION {[1..n -> RowVals] : n \in 1..MaxTokens}

\* new_num_tokens: [none |-> TRUE] for None, [n |-> k] for the number k
NoArg == [none |-> TRUE]
NumArgs == {NoArg} \cup {[n |-> k] : k \in 1..MaxTokens}

\* isinstance(old_embeddings, nn.Embedding)
IsEmbedding_always(m) == TRUE
IsEmbedding(m) == m.kind = "Embedding"

\* old_num_tokens == new_num_tokens
SameSize_never(old_num_tokens, new_num_tokens) == FALSE
SameSize(old_num_tokens, new_num_tokens) == old_num_tokens = new_num_tokens

\* n = min(old_num_tokens, new_num_tokens)
Min(x, y) == IF x < y THEN x ELSE y

\* nn.Embedding(new_num_tokens, old_embedding_dim) after _init_text_weights:
\* a new object whose rows are the random numbers init.
NewEmbedding(id, init) == [id |-> id, kind |-> "Embedding", weight |-> init]

\* new_embeddings.weight.data[:n, :] = old_embeddings.weight.data[:n, :]
CopyRows(new, old, n) ==
    [new EXCEPT !.weight = [i \in DOMAIN new.weight |->
                               IF i <= n THEN old.weight[i] ELSE new.weight[i]]]

\* The value the function returns after line 1203: the body ends there with
\* no return statement, so the call evaluates to None.
FallOffEnd(new_embeddings) == NoTensor

\* _get_resized_embeddings(old_embeddings, new_num_tokens); id and init are
\* the identity and the random rows of the module line 1192 creates.
\* ret: the value returned, exc: the exception raised, old: old_embeddings
\* after the call, created: the module the call created.
get_resized_embeddings(old_embeddings, new_num_tokens, id, init) ==
    LET same(o) == [ret |-> o, exc |-> None, old |-> o, created |-> NoTensor]
        fail(x) == [ret |-> NoTensor, exc |-> x, old |-> old_embeddings, created |-> NoTensor]
    IN  IF new_num_tokens = NoArg THEN same(old_embeddings)
        ELSE IF old_embeddings = NoTensor THEN fail("AttributeError")
        ELSE IF SameSize(Len(old_embeddings.weight), new_num_tokens.n)
             THEN same(old_embeddings)
        ELSE IF ~IsEmbedding(old_embeddings) THEN fail("TypeError")
        ELSE LET n   == Min(Len(old_embeddings.weight), new_num_tokens.n)
                 new == CopyRows(NewEmbedding(id, init), old_embeddings, n)
             IN  [ret |-> FallOffEnd(new), exc |-> None, old |-> old_embeddings,
                  created |-> new]

get_input_embeddings == word_embeddings

NoCall == [op |-> None]

\* UnimoModel.__init__: BertEmbeddings creates word_embeddings as an
\* nn.Embedding of vocab_size rows.
EmbInit ==
    /\ \E w \in Weights : word_embeddings = [id |-> 1, kind |-> "Embedding", weight |-> w]
    /\ next_id = 2
    /\ emb_calls = 0
    /\ emb_last = NoCall

EmbIdle ==
    /\ word_embeddings = NoTensor
    /\ next_id = 0
    /\ emb_calls = 0
    /\ emb_last = NoCall

\* resize_token_embeddings(new_num_tokens), lines 1151-1154; an exception of
\* _get_resized_embeddings leaves before set_input_embeddings.
ResizeTokenEmbeddings ==
    /\ emb_calls < MaxCalls
    /\ next_id > 0
    /\ \E new_num_tokens \in NumArgs :
       \E init \in IF new_num_tokens = NoArg THEN {<<>>} ELSE [1..new_num_tokens.n -> RowVals] :
           LET old_embeddings == get_input_embeddings
               r == get_resized_embeddings(old_embeddings, new_num_tokens, next_id, init)
           IN  /\ word_embeddings' = IF r.exc = None THEN r.ret ELSE word_embeddings
               /\ next_id' = IF r.created = NoTensor THEN next_id ELSE next_id + 1
               /\ emb_last' = [op |-> "resize_token_embeddings",
                               new_num_tokens |-> new_num_tokens,
                               old_before |-> old_embeddings,
                               old_after |-> r.old,
                               ret |-> r.ret, exc |-> r.exc, created |-> r.created]
    /\ emb_calls' = emb_calls + 1
    /\ UNCHANGED <<maskVars, lossVars, fwdVars>>

\* set_input_embeddings(value), lines 1148-1149, with a module the caller built
SetInputEmbeddings ==
    /\ emb_calls < MaxCalls
    /\ next_id > 0
    /\ \E kind \in {"Embedding", "Linear"}, w \in Weights :
           /\ word_embeddings' = [id |-> next_id, kind |-> kind, weight |-> w]
           /\ emb_last' = [op |-> "set_input_embeddings"]
    /\ next_id' = next_id + 1
    /\ emb_calls' = emb_calls + 1
    /\ UNCHANGED <<maskVars, lossVars, fwdVars>>

-----------------------------------------------------------------------------
(* UnimoModel.forward: ShareKey, AttentionReg, the encoder layers *)

\* In this part a hidden state, a query, a key, a bias and an attention score
\* are single numbers: batch, sequence and head axes all have size 1. The
\* inputs have the lengths ShareKey's biases are built for (v_max_l, t_max_l).

START_SHARE_LAYER == 9
ShareKey_layer == 12          \* ShareKey.layer, set by UnimoModel.__init__
attention_head_size == 64     \* BertSelfAttention.attention_head_size
MODIFY == FALSE               \* BertSelfAttention.MODIFY

MaxSeed == 1      \* the random initial parameters are drawn from 0..MaxSeed families
MaxHidden == 2    \* hidden states are kept in 0..MaxHidden
MaxPasses == 2    \* forward calls begun

\* ShareKey.init(): ShareKey.layer parameters of each kind, drawn at random
\* (xavier_uniform_); seed picks the draw. Index l + 1 holds layer l.
ShareKeyInit(seed) ==
    [key         |-> [l \in 1..ShareKey_layer |-> 1 + ((l + seed) % 3)],
     vision_bias |-> [l \in 1..ShareKey_layer |-> 2 * ((l + seed) % 4)],
     text_bias   |-> [l \in 1..ShareKey_layer |-> 2 * ((l + seed) % 4) + 1]]

\* ShareKey.cal_attention(query_states, layer, modality): matmul(query, key[layer])
\* plus the bias of the modality.
BiasOf_text(sk, layer, modality) == sk.text_bias[layer + 1]
BiasOf(sk, layer, modality) ==
    IF modality = "vision" THEN sk.vision_bias[layer + 1] ELSE sk.text_bias[layer + 1]

cal_attention(sk, query_states, layer, modality) ==
    query_states * sk.key[layer + 1] + BiasOf(sk, layer, modality)

\* The learned projections of a layer (weights fixed at construction).
q_proj(layer, h) == h + layer + 1          \* CLIPAttention.q_proj, times scale
k_proj(layer, h) == 2 * h + 1              \* CLIPAttention.k_proj
query(layer, h) == attention_head_size * (h + 1) + layer   \* BertSelfAttention.query
key(layer, h) == h + 2                     \* BertSelfAttention.key

\* CLIPAttention.forward, line 538
CLIPOwnKey_le(layer) == layer <= START_SHARE_LAYER
CLIPOwnKey(layer) == layer < START_SHARE_LAYER

\* BertSelfAttention.forward, line 649
BertOwnKey(layer) == layer < START_SHARE_LAYER

\* BertSelfAttention.forward, line 661
BertRecords_gt(layer) == layer > START_SHARE_LAYER
BertRecords(layer) == layer >= START_SHARE_LAYER

\* The raw attention weights of vision layer `layer`, lines 538-543, with
\* where the key came from.
CLIPScores(sk, layer, h) ==
    IF CLIPOwnKey(layer)
    THEN [shared |-> FALSE, key |-> k_proj(layer, h), bias |-> 0,
          scores |-> q_proj(layer, h) * k_proj(layer, h)]
    ELSE [shared |-> TRUE, key |-> sk.key[layer + 1], bias |-> BiasOf(sk, layer, "vision"),
          scores |-> cal_attention(sk, q_proj(layer, h), layer, "vision")]

\* The attention scores of text layer `layer`, lines 649-659: own or shared
\* key, divided by sqrt(attention_head_size), plus the attention mask.
BertScores(sk, layer, h, mask) ==
    LET raw == IF BertOwnKey(layer)
               THEN [shared |-> FALSE, key |-> key(layer, h), bias |-> 0,
                     scores |-> query(layer, h) * key(layer, h)]
               ELSE [shared |-> TRUE, key |-> sk.key[layer + 1],
                     bias |-> BiasOf(sk, layer, "text"),
                     scores |-> cal_attention(sk, query(layer, h), layer, "text")]
        scaled == raw.scores \div ISqrt(attention_head_size)
    IN  [raw EXCEPT !.scores = IF mask = NoTensor THEN scaled ELSE scaled + mask.data[1]]

\* What line 664 / 666 appends
Recorded(scores) == IF MODIFY /\ scores < -9000 THEN 0 ELSE scores

\* get_head_mask(head_mask, num_hidden_layers), lines 75-77
get_head_mask(hm, n) == [i \in 1..n |-> NoTensor]

\* layer_head_mask = head_mask[idx] if head_mask is not None else None, line
\* 963; UnimoModel.forward calls the encoder without head_mask (lines
\* 1094-1101), so the encoder's head_mask parameter is its default, None.
encoder_head_mask == NoTensor
layer_head_mask(i) == IF encoder_head_mask # NoTensor THEN encoder_head_mask[i + 1] ELSE NoTensor

\* The order of the two layer calls in the loop body, lines 945-975
LoopOrder_swapped == <<"text", "vision">>
LoopOrder == <<"vision", "text">>

\* The step after the layer call `phase` of iteration i
AfterPhase(phase, i) ==
    IF phase = LoopOrder[1] THEN LoopOrder[2]
    ELSE IF i + 1 < num_hidden_layers THEN LoopOrder[1] ELSE "post"

IdxAfter(phase, i) == IF phase = LoopOrder[1] THEN i ELSE i + 1

Residual(h, x) == (h + x) % (MaxHidden + 1)

OneByOne(v) == [shape |-> <<1, 1>>, data |-> <<v>>]

NoArgs == [none |-> TRUE]

\* UnimoModel.__init__: the layers are built and ShareKey.init() runs; the
\* lists of AttentionReg are empty class attributes.
FwdInit ==
    /\ num_hidden_layers \in 1..ShareKey_layer
    /\ \E seed \in 0..MaxSeed : ShareKey = ShareKeyInit(seed)
    /\ attention_vision_list = <<>>
    /\ attention_text_list = <<>>
    /\ embedding = NoTensor
    /\ fwd_pc = "idle"
    /\ idx = 0
    /\ args = NoArgs
    /\ head_mask = <<>>
    /\ enc_mask = NoTensor
    /\ vision_hidden_states = 0
    /\ text_hidden_states = 0
    /\ fwd_result = None
    /\ trace = <<>>
    /\ base = <<0, 0>>
    /\ passes = 0
    /\ since_clear = 0

FwdIdle ==
    /\ num_hidden_layers = 0
    /\ ShareKey = NoTensor
    /\ attention_vision_list = <<>>
    /\ attention_text_list = <<>>
    /\ embedding = NoTensor
    /\ fwd_pc = "off"
    /\ idx = 0
    /\ args = NoArgs
    /\ head_mask = <<>>
    /\ enc_mask = NoTensor
    /\ vision_hidden_states = 0
    /\ text_hidden_states = 0
    /\ fwd_result = None
    /\ trace = <<>>
    /\ base = <<0, 0>>
    /\ passes = 0
    /\ since_clear = 0

\* The arguments of a forward call: pixel_values and input_ids (one number
\* each), attention_mask (None or a [1, 1] mask), head_mask (None or a mask
\* over one head), token_type_ids (given or None).
ForwardArgs ==
    [pixel_values   : 0..1,
     input_ids      : 0..1,
     attention_mask : {NoTensor, OneByOne(Float(1)), OneByOne(Float(0))},
     head_mask      : {NoTensor, [shape |-> <<1>>, data |-> <<0>>]},
     token_type_ids : {"given", None}]

\* UnimoModel.forward up to the encoder loop, lines 1071-1101 and 925-933,
\* for a call that reaches the loop.
ForwardBegin ==
    /\ fwd_pc = "idle"
    /\ passes < MaxPasses
    /\ \E a \in ForwardArgs :
        /\ a.token_type_ids # None
        /\ args' = a
        /\ LET am  == IF a.attention_mask = NoTensor THEN OneByOne(Float(1))
                      ELSE a.attention_mask
               ext == get_extended_attention_mask(am)
           IN  enc_mask' = [shape |-> ext.value.shape, data |-> ext.value.data]
        /\ head_mask' = get_head_mask(a.head_mask, num_hidden_layers)
        /\ vision_hidden_states' = a.pixel_values % (MaxHidden + 1)
        /\ text_hidden_states' = a.input_ids % (MaxHidden + 1)
        /\ embedding' = OneByOne(1)
    /\ fwd_pc' = LoopOrder[1]
    /\ idx' = 0
    /\ trace' = <<>>
    /\ base' = <<Len(attention_vision_list), Len(attention_text_list)>>
    /\ fwd_result' = None
    /\ passes' = passes + 1
    /\ UNCHANGED <<num_hidden_layers, ShareKey, attention_vision_list, attention_text_list,
                   since_clear>>
    /\ UNCHANGED <<maskVars, lossVars, embVars>>

\* BertEmbeddings.embedding when forward leaves through the raise of line
\* 1082: the text_embeddings call of lines 1087-1091, which assigns it, comes
\* after the check and has not run.
embedding_at_raise_late(e) == OneByOne(1)
embedding_at_raise(e) == e

\* UnimoModel.forward with token_type_ids = None, lines 1071-1082
ForwardRaise ==
    /\ fwd_pc = "idle"
    /\ passes < MaxPasses
    /\ \E a \in ForwardArgs :
        /\ a.token_type_ids = None
        /\ args' = a
    /\ fwd_result' = "ValueError"
    /\ trace' = <<>>
    /\ base' = <<Len(attention_vision_list), Len(attention_text_list)>>
    /\ passes' = passes + 1
    /\ embedding' = embedding_at_raise(embedding)
    /\ UNCHANGED <<num_hidden_layers, ShareKey, attention_vision_list, attention_text_list,
                   fwd_pc, idx, head_mask, enc_mask, vision_hidden_states,
                   text_hidden_states, since_clear>>
    /\ UNCHANGED <<maskVars, lossVars, embVars>>

\* vision_layer_module(idx, vision_hidden_states, ...), lines 945-953 with
\* CLIPEncoderLayer.forward and CLIPAttention.forward
VisionLayer ==
    /\ fwd_pc = "vision"
    /\ LET r == CLIPScores(ShareKey, idx, vision_hidden_states)
       IN  /\ attention_vision_list' =
                  IF CLIPOwnKey(idx) THEN attention_vision_list
                  ELSE Append(attention_vision_list, r.scores)
           /\ vision_hidden_states' = Residual(vision_hidden_states, r.scores)
           /\ trace' = Append(trace, [modality |-> "vision", layer |-> idx,
                                      shared |-> r.shared, key |-> r.key, bias |-> r.bias,
                                      scores |-> r.scores, head_mask |-> NoTensor])
    /\ fwd_pc' = AfterPhase("vision", idx)
    /\ idx' = IdxAfter("vision", idx)
    /\ UNCHANGED <<num_hidden_layers, ShareKey, attention_text_list, embedding, args,
                   head_mask, enc_mask, text_hidden_states, fwd_result, base, passes,
                   since_clear>>
    /\ UNCHANGED <<maskVars, lossVars, embVars>>

\* text_layer_module(idx, text_hidden_states, ...), lines 963-975 with
\* BertLayer.forward, BertAttention.forward and BertSelfAttention.forward
TextLayer ==
    /\ fwd_pc = "text"
    /\ LET r  == BertScores(ShareKey, idx, text_hidden_states, enc_mask)
           hm == layer_head_mask(idx)
           kept == IF hm = NoTensor THEN r.scores ELSE r.scores * hm.data[1]
       IN  /\ attention_text_list' =
                  IF BertRecords(idx) THEN Append(attention_text_list, Recorded(r.scores))
                  ELSE attention_text_list
           /\ text_hidden_states' = Residual(text_hidden_states, kept)
           /\ trace' = Append(trace, [modality |-> "text", layer |-> idx,
                                      shared |-> r.shared, key |-> r.key, bias |-> r.bias,
                                      scores |-> r.scores, head_mask |-> hm])
    /\ fwd_pc' = AfterPhase("text", idx)
    /\ idx' = IdxAfter("text", idx)
    /\ UNCHANGED <<num_hidden_layers, ShareKey, attention_vision_list, embedding, args,
                   head_mask, enc_mask, vision_hidden_states, fwd_result, base, passes,
                   since_clear>>
    /\ UNCHANGED <<maskVars, lossVars, embVars>>

\* The end of UnimoEncoder.forward and of UnimoModel.forward, lines 984-991
\* and 1105-1114
ForwardReturn ==
    /\ fwd_pc = "post"
    /\ fwd_result' = "returned"
    /\ fwd_pc' = "idle"
    /\ since_clear' = since_clear + 1
    /\ UNCHANGED <<num_hidden_layers, ShareKey, attention_vision_list, attention_text_list,
                   embedding, idx, args, head_mask, enc_mask, vision_hidden_states,
                   text_hidden_states, trace, base, passes>>
    /\ UNCHANGED <<maskVars, lossVars, embVars>>

\* What clear_attention_list assigns to each list, lines 411-412: a new empty
\* list.
cleared_kept(list) == list
cleared(list) == <<>>

\* AttentionReg.clear_attention_list(), lines 409-412
ClearAttentionList ==
    /\ fwd_pc = "idle"
    /\ passes > 0
    /\ Len(attention_vision_list) + Len(attention_text_list) > 0
    /\ attention_vision_list' = cleared(attention_vision_list)
    /\ attention_text_list' = cleared(attention_text_list)
    /\ since_clear' = 0
    /\ fwd_result' = None        \* the last call is no longer a forward call
    /\ UNCHANGED <<num_hidden_layers, ShareKey, embedding, fwd_pc, idx, args, head_mask,
                   enc_mask, vision_hidden_states, text_hidden_states, trace, base, passes>>
    /\ UNCHANGED <<maskVars, lossVars, embVars>>

-----------------------------------------------------------------------------
(* Specifications *)

InitMask == MaskInit /\ LossIdle /\ EmbIdle /\ FwdIdle
NextMask == CallGetExtendedAttentionMask
SpecMask == InitMask /\ [][NextMask]_vars

InitLoss == LossInit /\ MaskIdle /\ EmbIdle /\ FwdIdle
NextLoss == CalLossNext \/ CalLossBody \/ CalLossReturn
SpecLoss == InitLoss /\ [][NextLoss]_vars

InitEmb == EmbInit /\ MaskIdle /\ LossIdle /\ FwdIdle
NextEmb == ResizeTokenEmbeddings \/ SetInputEmbeddings
SpecEmb == InitEmb /\ [][NextEmb]_vars

Init == FwdInit /\ MaskIdle /\ LossIdle /\ EmbIdle
Next ==
    \/ ForwardBegin
    \/ ForwardRaise
    \/ VisionLayer
    \/ TextLayer
    \/ ForwardReturn
    \/ ClearAttentionList
Spec == Init /\ [][Next]_vars

-----------------------------------------------------------------------------
(* Claims *)

\* A forward call is under way or has just returned.
InPass == fwd_pc \in {"vision", "text", "post"} \/ fwd_result = "returned"

\* C1: in one UnimoEncoder.forward call the layers run in the order vision 0,
\* text 0, vision 1, text 1, ..., vision N-1, text N-1; when the call returns
\* every vision and every text layer has run exactly once.
C1_LayerOrder ==
    InPass =>
        /\ \A i \in DOMAIN trace :
               /\ trace[i].layer = (i - 1) \div 2
               /\ trace[i].modality = IF i % 2 = 1 THEN "vision" ELSE "text"
        /\ Len(trace) <= 2 * num_hidden_layers
        /\ fwd_result = "returned" => Len(trace) = 2 * num_hidden_layers

C1_Witness ==
    /\ fwd_result = "returned"
    /\ num_hidden_layers = ShareKey_layer
    /\ Len(trace) = 2 * ShareKey_layer
    /\ trace[Len(trace)].modality = "text"
    /\ trace[Len(trace)].layer = ShareKey_layer - 1

\* C2: the scores of vision layer idx and of text layer idx come from
\* ShareKey.cal_attention with the same key ShareKey.key[idx] and the bias of
\* the layer's own modality if and only if idx >= START_SHARE_LAYER; a layer
\* below START_SHARE_LAYER uses its own key projection and reads no ShareKey.
C2_SharedFromStartLayer ==
    InPass =>
        /\ \A i \in DOMAIN trace :
               LET e == trace[i]
               IN  /\ e.shared <=> e.layer >= START_SHARE_LAYER
                   /\ e.shared =>
                          /\ e.key = ShareKey.key[e.layer + 1]
                          /\ e.bias = IF e.modality = "vision"
                                      THEN ShareKey.vision_bias[e.layer + 1]
                                      ELSE ShareKey.text_bias[e.layer + 1]
        /\ \A i, j \in DOMAIN trace :
               (trace[i].layer = trace[j].layer /\ trace[i].shared /\ trace[j].shared)
                   => trace[i].key = trace[j].key

C2_Witness ==
    /\ fwd_result = "returned"
    /\ \E i, j, k \in DOMAIN trace :
           /\ trace[i].modality = "vision" /\ trace[i].layer = START_SHARE_LAYER
           /\ trace[i].shared
           /\ trace[j].modality = "text" /\ trace[j].layer = START_SHARE_LAYER
           /\ trace[j].shared /\ trace[j].key = trace[i].key /\ trace[j].bias # trace[i].bias
           /\ trace[k].layer = START_SHARE_LAYER - 1 /\ ~trace[k].shared

Max0(x) == IF x > 0 THEN x ELSE 0

\* What the call has appended to a list that held b entries when it began
AppendedTo(list, b) == SubSeq(list, b + 1, Len(list))

\* C3: one complete forward over N layers appends exactly
\* max(0, N - START_SHARE_LAYER) entries to each of the two lists, the scores
\* of the shared layers in increasing layer order; as long as only layers
\* below START_SHARE_LAYER have run, nothing has been appended.
C3_OneEntryPerSharedLayer ==
    InPass =>
        LET v == AppendedTo(attention_vision_list, base[1])
            t == AppendedTo(attention_text_list, base[2])
            k == Max0(num_hidden_layers - START_SHARE_LAYER)
        IN  /\ Len(attention_vision_list) >= base[1]
            /\ Len(attention_text_list) >= base[2]
            /\ (\A i \in DOMAIN trace : trace[i].layer < START_SHARE_LAYER) =>
                   (v = <<>> /\ t = <<>>)
            /\ fwd_result = "returned" =>
                   /\ Len(v) = k
                   /\ Len(t) = k
                   /\ \A j \in 1..k :
                          LET l == START_SHARE_LAYER + j - 1
                          IN  /\ trace[2 * l + 1].modality = "vision"
                              /\ trace[2 * l + 1].layer = l
                              /\ v[j] = trace[2 * l + 1].scores
                              /\ trace[2 * l + 2].modality = "text"
                              /\ trace[2 * l + 2].layer = l
                              /\ t[j] = trace[2 * l + 2].scores

C3_Witness ==
    /\ fwd_result = "returned"
    /\ num_hidden_layers = ShareKey_layer
    /\ passes = 2
    /\ base[1] = ShareKey_layer - START_SHARE_LAYER
    /\ Len(attention_vision_list) = 2 * (ShareKey_layer - START_SHARE_LAYER)
    /\ Len(attention_text_list) = 2 * (ShareKey_layer - START_SHARE_LAYER)

\* C8: get_head_mask returns one entry per hidden layer, the entries are None
\* only when no head_mask was given, and a supplied head_mask is carried into
\* the per-layer masks, which the text layers then apply.
C8_HeadMaskCarried ==
    (InPass /\ args # NoArgs) =>
        /\ Len(head_mask) = num_hidden_layers
        /\ \A i \in DOMAIN head_mask :
               /\ head_mask[i] = NoTensor <=> args.head_mask = NoTensor
               /\ args.head_mask # NoTensor => head_mask[i] = args.head_mask
        /\ \A i \in DOMAIN trace :
               trace[i].modality = "text" => trace[i].head_mask = head_mask[trace[i].layer + 1]

\* C4 as stated: whenever the old and the new attention differ in at least
\* one layer, the returned loss is strictly greater than 0.
C4_AnyDriftPenalized ==
    (loss_pc = "done" /\ drift) => loss_ret > 0

\* C4 as amended: the returned loss is never negative, and it is greater than
\* 0 exactly when in some layer the merged old attention (summed over dim 1
\* for "height", over dim 2 for "width") exceeds the merged new attention at
\* some position of some batch element.
C4_OneSidedDriftPenalized ==
    loss_pc = "done" => (loss_ret >= 0 /\ (loss_ret > 0 <=> exceed))

C4_Witness ==
    /\ loss_pc = "done"
    /\ loss_len = MaxList
    /\ drift
    /\ exceed
    /\ loss_ret > 0

\* C5: with no drift the loss vanishes: cal_loss(L, L) returns 0 for every
\* non-empty list L, for merge_type "height" and for "width".
C5_NoDriftNoLoss ==
    (loss_pc = "done" /\ ~drift) => loss_ret = 0

C5_Witness ==
    /\ loss_pc = "done"
    /\ merge_type = "width"
    /\ loss_len = MaxList
    /\ ~drift
    /\ loss_ret = 0

Resized == emb_last.op = "resize_token_embeddings"

\* C9: when new_num_tokens is None or equals the current number of tokens,
\* _get_resized_embeddings returns the very same module it was given, with its
\* rows as they were, and resize_token_embeddings leaves get_input_embeddings
\* unchanged.
C9_ResizeNoOp ==
    (/\ Resized
     /\ \/ emb_last.new_num_tokens = NoArg
        \/ /\ emb_last.old_before # NoTensor
           /\ emb_last.new_num_tokens.n = Len(emb_last.old_before.weight))
    => /\ emb_last.exc = None
       /\ emb_last.ret = emb_last.old_before
       /\ emb_last.old_after = emb_last.old_before
       /\ emb_last.created = NoTensor
       /\ get_input_embeddings = emb_last.old_before

C9_Witness ==
    /\ Resized
    /\ emb_last.old_before # NoTensor
    /\ emb_last.new_num_tokens # NoArg
    /\ emb_last.new_num_tokens.n = Len(emb_last.old_before.weight)
    /\ get_input_embeddings = emb_last.old_before
    /\ get_input_embeddings.id = 1

\* The calls C10 is about: an nn.Embedding resized to another number of rows.
RealResize ==
    /\ Resized
    /\ emb_last.new_num_tokens # NoArg
    /\ emb_last.old_before # NoTensor
    /\ IsEmbedding(emb_last.old_before)
    /\ emb_last.new_num_tokens.n # Len(emb_last.old_before.weight)

Indices(s) == {ix \in [1..Len(s) -> 0..(MaxSize - 1)] : \A k \in 1..Len(s) : ix[k] < s[k]}

\* The position of the extended mask that the input position ix is viewed at.
ExtIndex(ix) == IF Len(ix) = 3 THEN <<ix[1], 0, ix[2], ix[3]>> ELSE <<ix[1], 0, 0, ix[2]>>

ZeroOne(m) == \A i \in 1..Len(m.data) : m.data[i] \in {Float(0), Float(1)}

\* C6: for a mask with entries in {0, 1}, get_extended_attention_mask returns
\* a tensor that is 0 where the input is 1 and -10000 where the input is 0; a
\* [batch, seq] input gives shape [batch, 1, 1, seq] and a [batch, from, to]
\* input gives shape [batch, 1, from, to].
C6_ExtendedMask ==
    (mask_pc = "done" /\ Dim(attention_mask) \in {2, 3} /\ ZeroOne(attention_mask)) =>
        /\ mask_exc = None
        /\ extended_attention_mask # NoTensor
        /\ LET s == attention_mask.shape
           IN  extended_attention_mask.shape =
                   IF Len(s) = 2 THEN <<s[1], 1, 1, s[2]>> ELSE <<s[1], 1, s[2], s[3]>>
        /\ \A ix \in Indices(attention_mask.shape) :
               /\ At(attention_mask, ix) = Float(1) => At(extended_attention_mask, ExtIndex(ix)) = 0
               /\ At(attention_mask, ix) = Float(0) =>
                      At(extended_attention_mask, ExtIndex(ix)) = -10000

C6_Witness ==
    /\ mask_pc = "done"
    /\ attention_mask.shape = <<2, 1, 2>>
    /\ At(attention_mask, <<1, 0, 0>>) = Float(0)
    /\ At(attention_mask, <<0, 0, 1>>) = Float(1)
    /\ ZeroOne(attention_mask)
    /\ extended_attention_mask.shape = <<2, 1, 1, 2>>
    /\ At(extended_attention_mask, <<1, 0, 0, 0>>) = -10000

\* C7: get_extended_attention_mask raises ValueError for every attention_mask
\* whose number of dimensions is neither 2 nor 3, and returns no mask then.
C7_WrongRankRaises ==
    (mask_pc = "done" /\ Dim(attention_mask) \notin {2, 3}) =>
        (mask_exc = "ValueError" /\ extended_attention_mask = NoTensor)

C7_Witness ==
    /\ mask_pc = "done"
    /\ Dim(attention_mask) = 4
    /\ mask_exc = "ValueError"

\* The last call was _get_resized_embeddings with a size and with a module
\* that is not an nn.Embedding.
NonEmbeddingResize ==
    /\ Resized
    /\ emb_last.new_num_tokens # NoArg
    /\ emb_last.old_before # NoTensor
    /\ emb_last.old_before.kind # "Embedding"

\* C11 as stated: _get_resized_embeddings raises TypeError whenever
\* new_num_tokens is not None and old_embeddings is not an nn.Embedding, and
\* returns no module then.
C11_NonEmbeddingRaises ==
    NonEmbeddingResize => (emb_last.exc = "TypeError" /\ emb_last.ret = NoTensor)

\* C11, amended: with new_num_tokens given and old_embeddings a module that is
\* not an nn.Embedding, _get_resized_embeddings raises TypeError exactly when
\* new_num_tokens differs from the module's number of rows, and then it returns
\* nothing, builds nothing and the model keeps its module; when the sizes are
\* equal it returns the old module without raising.
C11_NonEmbeddingRaisesOnResize ==
    NonEmbeddingResize =>
        IF emb_last.new_num_tokens.n # Len(emb_last.old_before.weight)
        THEN /\ emb_last.exc = "TypeError"
             /\ emb_last.ret = NoTensor
             /\ emb_last.created = NoTensor
             /\ word_embeddings = emb_last.old_before
        ELSE /\ emb_last.exc = None
             /\ emb_last.ret = emb_last.old_before

C11_Witness ==
    /\ NonEmbeddingResize
    /\ emb_last.new_num_tokens.n # Len(emb_last.old_before.weight)
    /\ emb_last.exc = "TypeError"
    /\ word_embeddings = emb_last.old_before

\* C12: UnimoModel.forward called with token_type_ids = None raises ValueError
\* before any encoder layer runs, and the failing call leaves
\* AttentionReg.attention_vision_list, AttentionReg.attention_text_list, the
\* ShareKey parameters and BertEmbeddings.embedding as they were.
C12_NoTokenTypeIdsRaises ==
    [][(passes' = passes + 1 /\ args'.token_type_ids = None) =>
           /\ fwd_result' = "ValueError"
           /\ fwd_pc' = "idle"
           /\ trace' = <<>>
           /\ attention_vision_list' = attention_vision_list
           /\ attention_text_list' = attention_text_list
           /\ ShareKey' = ShareKey
           /\ embedding' = embedding]_vars

C12_Witness ==
    /\ fwd_result = "ValueError"
    /\ args.token_type_ids = None
    /\ passes = 2
    /\ since_clear = 1
    /\ Len(attention_vision_list) = 3
    /\ Len(attention_text_list) = 3
    /\ embedding = OneByOne(1)
    /\ trace = <<>>

\* s is an initial part of t.
IsPrefix(s, t) == Len(s) <= Len(t) /\ SubSeq(t, 1, Len(s)) = s

\* The number of entries one complete pass over N layers adds to each list.
PerPass == Max0(num_hidden_layers - START_SHARE_LAYER)

\* Between calls, each list holds since_clear * max(0, N - START_SHARE_LAYER)
\* entries, since_clear being the number of passes completed since the last
\* clear_attention_list (or since the start).
ListsGrowPerPass ==
    fwd_pc = "idle" =>
        /\ Len(attention_vision_list) = since_clear * PerPass
        /\ Len(attention_text_list) = since_clear * PerPass

\* A step that does not keep the old entries of both lists in place is a
\* clear_attention_list call made between passes, and it empties both lists.
OnlyClearShortens ==
    (~IsPrefix(attention_vision_list, attention_vision_list')
         \/ ~IsPrefix(attention_text_list, attention_text_list')) =>
        /\ fwd_pc = "idle" /\ fwd_pc' = "idle"
        /\ passes' = passes
        /\ since_clear' = 0
        /\ attention_vision_list' = <<>>
        /\ attention_text_list' = <<>>

\* C13: a forward pass never resets AttentionReg.attention_vision_list or
\* attention_text_list: after k complete forward passes over N layers with no
\* clear_attention_list in between, each list holds exactly
\* k * max(0, N - START_SHARE_LAYER) entries; only clear_attention_list shortens
\* them, and it sets both to empty.
C13_ListsAccumulate == [](ListsGrowPerPass) /\ [][OnlyClearShortens]_vars

C13_Witness ==
    /\ fwd_pc = "idle"
    /\ fwd_result = "returned"
    /\ num_hidden_layers = ShareKey_layer
    /\ since_clear = 2
    /\ Len(attention_vision_list) = 2 * (ShareKey_layer - START_SHARE_LAYER)
    /\ Len(attention_text_list) = 2 * (ShareKey_layer - START_SHARE_LAYER)

====
